---------------------------- MODULE Spec2Model ----------------------------
(***************************************************************************)
(* Model of the spatial value subsystem of go-mysql-server:                *)
(*   sql/point.go                       Point, PointType                   *)
(*   sql/expression/function/polygon.go Polygon constructor expression and *)
(*                                      the geometric helper functions     *)
(* Coordinates are float64 in the source; the model uses small integers,   *)
(* on which float64 arithmetic is exact.                                   *)
(***************************************************************************)
EXTENDS Integers, Sequences, FiniteSets, TLC

VARIABLES exprs, op, in, out

vars == <<exprs, op, in, out>>

(***************************************************************************)
(* Bounds                                                                  *)
(***************************************************************************)
\* coordinates of the points given to the segment functions: 0..GeomCoord
GeomCoord == 3
\* coordinates of the points of a candidate ring: 0..RingCoord
RingCoord == 1
\* longest Linestring given to isLinearRing
MaxPoints == 5
\* coordinates of the points given to PointType: 0..PointCoord
PointCoord == 2
\* most child expressions of one Polygon constructor
MaxArgs == 2
\* most Polygon constructors alive at once
MaxExprs == 2

(***************************************************************************)
(* Values (Go interface{} values, tagged by their dynamic type)            *)
(***************************************************************************)
Nil == [kind |-> "nil"]

Point(x, y) == [kind |-> "Point", X |-> x, Y |-> y]

Linestring(points) == [kind |-> "Linestring", Points |-> points]

Polygon(lines) == [kind |-> "Polygon", Lines |-> lines]

StringVal(s) == [kind |-> "string", S |-> s]

NilErr == "nil"

PointsUpTo(n) == {Point(x, y) : x \in 0..n, y \in 0..n}

SeqsUpTo(S, n) == UNION {[1..k -> S] : k \in 0..n}

(***************************************************************************)
(* Geometric helpers, polygon.go                                           *)
(***************************************************************************)
Min(x, y) == IF x < y THEN x ELSE y

Max(x, y) == IF x > y THEN x ELSE y

pointOrientation(p1, p2, p3) ==
    LET val == (p2.Y - p1.Y) * (p3.X - p2.X) - (p3.Y - p2.Y) * (p2.X - p1.X)
    IN  IF val = 0 THEN 0
        ELSE IF val > 0 THEN 1
        ELSE 2

onSegment(a, b, c) ==
    /\ c.X > Min(a.X, b.X)
    /\ c.X < Max(a.X, b.X)
    /\ c.Y > Min(a.Y, b.Y)
    /\ c.Y < Max(a.Y, b.Y)

\* the crossing test with "or" in place of "and"
lineSegmentsIntersectAnyDiffers(a, b, c, d) ==
    LET abc == pointOrientation(a, b, c)
        abd == pointOrientation(a, b, d)
        cda == pointOrientation(c, d, a)
        cdb == pointOrientation(c, d, b)
    IN  IF (abc # abd) \/ (cda # cdb) THEN TRUE
        ELSE IF abc = 0 /\ onSegment(a, b, c) THEN TRUE
        ELSE IF abd = 0 /\ onSegment(a, b, d) THEN TRUE
        ELSE IF cda = 0 /\ onSegment(c, d, a) THEN TRUE
        ELSE IF cdb = 0 /\ onSegment(c, d, b) THEN TRUE
        ELSE FALSE

lineSegmentsIntersect(a, b, c, d) ==
    LET abc == pointOrientation(a, b, c)
        abd == pointOrientation(a, b, d)
        cda == pointOrientation(c, d, a)
        cdb == pointOrientation(c, d, b)
    IN  IF (abc # abd) /\ (cda # cdb) THEN TRUE
        ELSE IF abc = 0 /\ onSegment(a, b, c) THEN TRUE
        ELSE IF abd = 0 /\ onSegment(a, b, d) THEN TRUE
        ELSE IF cda = 0 /\ onSegment(c, d, a) THEN TRUE
        ELSE IF cdb = 0 /\ onSegment(c, d, b) THEN TRUE
        ELSE FALSE

\* Outcome of a Go function that may end in a run-time panic.
Return(v) == [panic |-> FALSE, ret |-> v]

Panic == [panic |-> TRUE, ret |-> FALSE]

\* Go's bounds check of s[i] on a slice of length n (0-based i)
InRange(i, n) == 0 <= i /\ i < n

\* isLinearRing without the length test
isLinearRingClosedOnly(line) ==
    LET numPoints == Len(line.Points)
    IN  IF ~InRange(0, numPoints) \/ ~InRange(numPoints - 1, numPoints) THEN Panic
        ELSE IF line.Points[1] # line.Points[numPoints] THEN Return(FALSE)
        ELSE Return(TRUE)

\* The statements after the unconditional return of line 155 are never run.
isLinearRing(line) ==
    LET numPoints == Len(line.Points)
    IN  IF numPoints # 0 /\ numPoints < 4 THEN Return(FALSE)
        ELSE IF ~InRange(0, numPoints) \/ ~InRange(numPoints - 1, numPoints) THEN Panic
        ELSE IF line.Points[1] # line.Points[numPoints] THEN Return(FALSE)
        ELSE Return(TRUE)

(***************************************************************************)
(* Specification of the segment functions: the inputs are drawn by Init,   *)
(* each action applies one function to them.                               *)
(***************************************************************************)
GeomPoints == PointsUpTo(GeomCoord)

InitGeom ==
    /\ exprs = <<>>
    /\ op = "none"
    /\ in \in [a : GeomPoints, b : GeomPoints, c : GeomPoints, d : GeomPoints]
    /\ out = Nil

PointOrientationCall ==
    /\ op' = "pointOrientation"
    /\ out' = pointOrientation(in.a, in.b, in.c)
    /\ UNCHANGED <<exprs, in>>

OnSegmentCall ==
    /\ op' = "onSegment"
    /\ out' = onSegment(in.a, in.b, in.c)
    /\ UNCHANGED <<exprs, in>>

LineSegmentsIntersectCall ==
    /\ op' = "lineSegmentsIntersect"
    /\ out' = lineSegmentsIntersect(in.a, in.b, in.c, in.d)
    /\ UNCHANGED <<exprs, in>>

NextGeom ==
    \/ PointOrientationCall
    \/ OnSegmentCall
    \/ LineSegmentsIntersectCall

SpecGeom == InitGeom /\ [][NextGeom]_vars

(***************************************************************************)
(* Specification of isLinearRing                                           *)
(***************************************************************************)
RingPoints == PointsUpTo(RingCoord)

InitRing ==
    /\ exprs = <<>>
    /\ op = "none"
    /\ in \in {[line |-> Linestring(ps)] : ps \in SeqsUpTo(RingPoints, MaxPoints)}
    /\ out = Nil

IsLinearRingCall ==
    /\ op' = "isLinearRing"
    /\ out' = isLinearRing(in.line)
    /\ UNCHANGED <<exprs, in>>

NextRing == IsLinearRingCall

SpecRing == InitRing /\ [][NextRing]_vars

(***************************************************************************)
(* PointType, point.go                                                     *)
(***************************************************************************)
\* the shared null-comparison convention: a null is less than any other value
compareNulls(a, b) ==
    IF a = Nil /\ b = Nil THEN [hasNulls |-> TRUE, res |-> 0]
    ELSE IF a = Nil THEN [hasNulls |-> TRUE, res |-> -1]
    ELSE IF b = Nil THEN [hasNulls |-> TRUE, res |-> 1]
    ELSE [hasNulls |-> FALSE, res |-> 0]

\* Compare that looks at the X values only
CompareXOnly(a, b) ==
    LET nulls == compareNulls(a, b)
    IN  IF nulls.hasNulls THEN [res |-> nulls.res, err |-> NilErr]
        ELSE IF a.kind # "Point" THEN [res |-> 0, err |-> "received a non-Point type"]
        ELSE IF b.kind # "Point" THEN [res |-> 0, err |-> "received a non-Point type"]
        ELSE IF a.X > b.X THEN [res |-> 1, err |-> NilErr]
        ELSE IF a.X < b.X THEN [res |-> -1, err |-> NilErr]
        ELSE [res |-> 0, err |-> NilErr]

Compare(a, b) ==
    LET nulls == compareNulls(a, b)
    IN  IF nulls.hasNulls THEN [res |-> nulls.res, err |-> NilErr]
        ELSE IF a.kind # "Point" THEN [res |-> 0, err |-> "received a non-Point type"]
        ELSE IF b.kind # "Point" THEN [res |-> 0, err |-> "received a non-Point type"]
        ELSE IF a.X > b.X THEN [res |-> 1, err |-> NilErr]
        ELSE IF a.X < b.X THEN [res |-> -1, err |-> NilErr]
        ELSE IF a.Y > b.Y THEN [res |-> 1, err |-> NilErr]
        ELSE IF a.Y < b.Y THEN [res |-> -1, err |-> NilErr]
        ELSE [res |-> 0, err |-> NilErr]

\* Convert that lets every non-nil value through
ConvertAnyNonNil(v) ==
    IF v # Nil THEN [val |-> v, err |-> NilErr]
    ELSE [val |-> Nil, err |-> "can't convert to Point"]

Convert(v) ==
    IF v.kind = "Point" THEN [val |-> v, err |-> NilErr]
    ELSE [val |-> Nil, err |-> "can't convert to Point"]

\* sqltypes.Value: a type tag and the bytes of the payload
WireValue(typ, val) == [typ |-> typ, val |-> val]

\* sqltypes.NULL
WireNull == WireValue("Null", <<>>)

\* sqltypes.Value{}, the zero Value: the zero type tag (Null), no payload
WireZero == WireValue("Null", <<>>)

\* sqltypes.MakeTrusted(typ, []byte(s))
MakeTrusted(typ, s) == WireValue(typ, s)

\* pv.(string) panics unless the dynamic type of pv is string; Convert only
\* ever returns a Point or fails.
SQL(v) ==
    IF v = Nil THEN [panic |-> FALSE, val |-> WireNull, err |-> NilErr]
    ELSE LET conv == Convert(v)
         IN  IF conv.err # NilErr THEN [panic |-> FALSE, val |-> WireZero, err |-> NilErr]
             ELSE IF conv.val.kind # "string"
                  THEN [panic |-> TRUE, val |-> WireZero, err |-> NilErr]
                  ELSE [panic |-> FALSE, val |-> MakeTrusted("Geometry", conv.val.S),
                        err |-> NilErr]

(***************************************************************************)
(* Specification of PointType                                              *)
(***************************************************************************)
PointValues == PointsUpTo(PointCoord)

\* the values handed to PointType: Points, nil and values of other types
Values == PointValues \cup {Nil, StringVal("POINT(0 0)"), Linestring(<<>>)}

InitPoint ==
    /\ exprs = <<>>
    /\ op = "none"
    /\ in \in [a : Values, b : Values]
    /\ out = Nil

CompareCall ==
    /\ op' = "Compare"
    /\ out' = Compare(in.a, in.b)
    /\ UNCHANGED <<exprs, in>>

ConvertCall ==
    /\ op' = "Convert"
    /\ out' = Convert(in.a)
    /\ UNCHANGED <<exprs, in>>

SQLCall ==
    /\ op' = "SQL"
    /\ out' = SQL(in.a)
    /\ UNCHANGED <<exprs, in>>

NextPoint ==
    \/ CompareCall
    \/ ConvertCall
    \/ SQLCall

SpecPoint == InitPoint /\ [][NextPoint]_vars

(***************************************************************************)
(* Polygon constructor expression, polygon.go                              *)
(***************************************************************************)
\* A child expression stands for any sql.Expression: all the constructor
\* uses of it is the (value, error) pair its Eval returns.
Lit(v) == [val |-> v, err |-> NilErr]

Failing(e) == [val |-> Nil, err |-> e]

ChildEval(arg) == [val |-> arg.val, err |-> arg.err]

NilRef == 0

\* NewPolygon that asks for two or more arguments
NewPolygonTwoOrMore(args) ==
    IF Len(args) < 2
    THEN [ok |-> FALSE, obj |-> [args |-> <<>>], err |-> "ErrInvalidArgumentNumber"]
    ELSE [ok |-> TRUE, obj |-> [args |-> args], err |-> NilErr]

\* ok tells whether a new *Polygon (obj) is returned, or nil with the error
NewPolygon(args) ==
    IF Len(args) < 1
    THEN [ok |-> FALSE, obj |-> [args |-> <<>>], err |-> "ErrInvalidArgumentNumber"]
    ELSE [ok |-> TRUE, obj |-> [args |-> args], err |-> NilErr]

WithChildren(l, children) == NewPolygon(children)

\* lines[i] = v written to the first element instead
StoreLineFirst(lines, i, v) == [lines EXCEPT ![1] = v]

\* lines[i] = v
StoreLine(lines, i, v) == [lines EXCEPT ![i] = v]

\* The loop of Eval from child i on; evaluated lists the children whose Eval
\* has been called.
RECURSIVE EvalFrom(_, _, _, _)
EvalFrom(args, i, lines, evaluated) ==
    IF i > Len(args)
    THEN [panic |-> FALSE, val |-> Polygon(lines), err |-> NilErr, evaluated |-> evaluated]
    ELSE LET r == ChildEval(args[i])
             seen == Append(evaluated, i)
         IN  IF r.err # NilErr
             THEN [panic |-> FALSE, val |-> Nil, err |-> r.err, evaluated |-> seen]
             ELSE IF r.val.kind = "Linestring"
             THEN LET ring == isLinearRing(r.val)
                  IN  IF ring.panic
                      THEN [panic |-> TRUE, val |-> Nil, err |-> NilErr, evaluated |-> seen]
                      ELSE IF ring.ret
                      THEN EvalFrom(args, i + 1, StoreLine(lines, i, r.val), seen)
                      ELSE [panic |-> FALSE, val |-> Nil,
                            err |-> "polygon constructor encountered a non-linearring",
                            evaluated |-> seen]
             ELSE [panic |-> FALSE, val |-> Nil,
                   err |-> "polygon constructor encountered a non-linestring",
                   evaluated |-> seen]

Eval(l) ==
    LET lines == [i \in 1..Len(l.args) |-> Linestring(<<>>)]
    IN  EvalFrom(l.args, 1, lines, <<>>)

(***************************************************************************)
(* Specification of the constructor: Polygon expressions are created by    *)
(* NewPolygon, rebuilt by WithChildren and evaluated by Eval.  exprs is    *)
(* the heap of the expressions created so far; a reference is an index.    *)
(***************************************************************************)
SquareRing == <<Point(0, 0), Point(0, 1), Point(1, 1), Point(0, 0)>>

BowTieRing == <<Point(1, 1), Point(1, 0), Point(0, 1), Point(0, 0), Point(1, 1)>>

CtorChildren == {Failing("child error"), Lit(Linestring(SquareRing))}

Init ==
    /\ exprs = <<>>
    /\ op = "none"
    /\ in = Nil
    /\ out = Nil

NewPolygonCall(args) ==
    LET r == NewPolygon(args)
    IN  /\ Len(exprs) < MaxExprs
        /\ op' = "NewPolygon"
        /\ in' = [recv |-> NilRef, args |-> args]
        /\ exprs' = IF r.ok THEN Append(exprs, r.obj) ELSE exprs
        /\ out' = [ref |-> IF r.ok THEN Len(exprs) + 1 ELSE NilRef, err |-> r.err]

WithChildrenCall(i, children) ==
    LET r == WithChildren(exprs[i], children)
    IN  /\ Len(exprs) < MaxExprs
        /\ op' = "WithChildren"
        /\ in' = [recv |-> i, args |-> children]
        /\ exprs' = IF r.ok THEN Append(exprs, r.obj) ELSE exprs
        /\ out' = [ref |-> IF r.ok THEN Len(exprs) + 1 ELSE NilRef, err |-> r.err]

EvalCall(i) ==
    /\ op' = "Eval"
    /\ in' = [recv |-> i, args |-> <<>>]
    /\ out' = Eval(exprs[i])
    /\ UNCHANGED exprs

Next ==
    \/ \E args \in SeqsUpTo(CtorChildren, MaxArgs) : NewPolygonCall(args)
    \/ \E i \in DOMAIN exprs, children \in SeqsUpTo(CtorChildren, MaxArgs) :
           WithChildrenCall(i, children)
    \/ \E i \in DOMAIN exprs : EvalCall(i)

Spec == Init /\ [][Next]_vars

(***************************************************************************)
(* Specification of Eval: Init draws the children of one constructor that  *)
(* NewPolygon has returned, Eval is applied to it.                         *)
(***************************************************************************)
Prefixes(ps) == {SubSeq(ps, 1, n) : n \in 0..Len(ps)}

\* empty, too short, open and closed Linestrings
EvalLines == {Linestring(ps) : ps \in Prefixes(SquareRing) \cup Prefixes(BowTieRing)}

EvalChildren ==
    {Failing("child error"), Failing("other child error"), Lit(Nil), Lit(Point(0, 0))}
        \cup {Lit(line) : line \in EvalLines}

InitEval ==
    /\ exprs \in {<<r.obj>> : r \in {NewPolygon(args) : args \in SeqsUpTo(EvalChildren, MaxArgs) \ {<<>>}}}
    /\ op = "none"
    /\ in = Nil
    /\ out = Nil

NextEval == \E i \in DOMAIN exprs : EvalCall(i)

SpecEval == InitEval /\ [][NextEval]_vars

(***************************************************************************)
(* Geometry used to state the properties, written independently of the     *)
(* functions above                                                         *)
(***************************************************************************)
Cross(p, q, r) == (q.X - p.X) * (r.Y - p.Y) - (q.Y - p.Y) * (r.X - p.X)

\* the closed intervals [lo1, hi1] and [lo2, hi2] share more than one number
IntervalsOverlap(lo1, hi1, lo2, hi2) == Max(lo1, lo2) < Min(hi1, hi2)

\* the closed intervals [lo1, hi1] and [lo2, hi2] share no number
IntervalsDisjoint(lo1, hi1, lo2, hi2) == hi1 < lo2 \/ hi2 < lo1

\* ab and cd lie on one line and share more than one point
CollinearOverlap(a, b, c, d) ==
    /\ a # b
    /\ c # d
    /\ Cross(a, b, c) = 0
    /\ Cross(a, b, d) = 0
    /\ IF a.X # b.X
       THEN IntervalsOverlap(Min(a.X, b.X), Max(a.X, b.X), Min(c.X, d.X), Max(c.X, d.X))
       ELSE IntervalsOverlap(Min(a.Y, b.Y), Max(a.Y, b.Y), Min(c.Y, d.Y), Max(c.Y, d.Y))

\* r lies on the closed segment pq
Between(p, q, r) ==
    /\ Cross(p, q, r) = 0
    /\ Min(p.X, q.X) <= r.X /\ r.X <= Max(p.X, q.X)
    /\ Min(p.Y, q.Y) <= r.Y /\ r.Y <= Max(p.Y, q.Y)

Sign(x) == IF x > 0 THEN 1 ELSE IF x < 0 THEN -1 ELSE 0

\* the closed segments ab and cd have a common point
SegmentsSharePoint(a, b, c, d) ==
    \/ Between(a, b, c)
    \/ Between(a, b, d)
    \/ Between(c, d, a)
    \/ Between(c, d, b)
    \/ /\ Sign(Cross(a, b, c)) * Sign(Cross(a, b, d)) < 0
       /\ Sign(Cross(c, d, a)) * Sign(Cross(c, d, b)) < 0

BoxesDisjoint(a, b, c, d) ==
    \/ IntervalsDisjoint(Min(a.X, b.X), Max(a.X, b.X), Min(c.X, d.X), Max(c.X, d.X))
    \/ IntervalsDisjoint(Min(a.Y, b.Y), Max(a.Y, b.Y), Min(c.Y, d.Y), Max(c.Y, d.Y))

Orientations(a, b, c, d) ==
    {pointOrientation(a, b, c), pointOrientation(a, b, d),
     pointOrientation(c, d, a), pointOrientation(c, d, b)}

(***************************************************************************)
(* Properties of the segment functions (SpecGeom)                          *)
(***************************************************************************)
\* C9: whenever the segments ab and cd are collinear and overlap (share more
\* than one point), horizontal and vertical segments included,
\* lineSegmentsIntersect(a, b, c, d) returns true.
C9_CollinearOverlapIntersects ==
    (op = "lineSegmentsIntersect" /\ CollinearOverlap(in.a, in.b, in.c, in.d))
        => out = TRUE

\* C10: whenever the segments ab and cd share no point and their bounding
\* boxes do not overlap, lineSegmentsIntersect(a, b, c, d) returns false, also
\* when some of the four orientation values are 0 and the others are not.
C10_DisjointBoxesNoIntersect ==
    (/\ op = "lineSegmentsIntersect"
     /\ ~SegmentsSharePoint(in.a, in.b, in.c, in.d)
     /\ BoxesDisjoint(in.a, in.b, in.c, in.d))
        => out = FALSE

\* a call on segments with disjoint boxes where one orientation is collinear
\* and another is not has returned false
C10_Witness ==
    /\ op = "lineSegmentsIntersect"
    /\ ~SegmentsSharePoint(in.a, in.b, in.c, in.d)
    /\ BoxesDisjoint(in.a, in.b, in.c, in.d)
    /\ in.a # in.b
    /\ in.c # in.d
    /\ 0 \in Orientations(in.a, in.b, in.c, in.d)
    /\ Orientations(in.a, in.b, in.c, in.d) # {0}
    /\ out = FALSE

(***************************************************************************)
(* Properties of isLinearRing (SpecRing)                                   *)
(***************************************************************************)
\* the ring crosses itself: two segments that are not neighbours share a point
SelfIntersecting(ps) ==
    \E i, j \in 1..(Len(ps) - 1) :
        /\ i + 1 < j
        /\ ~(i = 1 /\ j = Len(ps) - 1)
        /\ SegmentsSharePoint(ps[i], ps[i + 1], ps[j], ps[j + 1])

\* C8: for every Linestring of n >= 1 points isLinearRing returns (without
\* a panic) true exactly when n >= 4 and the first point equals the last one;
\* self-intersection plays no part in the result.
C8_RingIffClosedAndFourPoints ==
    (op = "isLinearRing" /\ Len(in.line.Points) >= 1)
        => /\ out.panic = FALSE
           /\ out.ret = (/\ Len(in.line.Points) >= 4
                         /\ in.line.Points[1] = in.line.Points[Len(in.line.Points)])

\* a closed, self-intersecting Linestring of 4 or more points was accepted
C8_Witness ==
    /\ op = "isLinearRing"
    /\ Len(in.line.Points) >= 4
    /\ in.line.Points[1] = in.line.Points[Len(in.line.Points)]
    /\ SelfIntersecting(in.line.Points)
    /\ out = Return(TRUE)

(***************************************************************************)
(* Properties of PointType (SpecPoint)                                     *)
(***************************************************************************)
\* the sign of the lexicographic comparison of (X, Y)
Lexicographic(p, q) ==
    IF p.X < q.X \/ (p.X = q.X /\ p.Y < q.Y) THEN -1
    ELSE IF q.X < p.X \/ (q.X = p.X /\ q.Y < p.Y) THEN 1
    ELSE 0

\* C1: for every Point v, SQL(v) completes and returns a wire value of the
\* Geometry type and no error; for nil it returns the wire NULL and no error.
C1_SQLEncodesPoint ==
    /\ (op = "SQL" /\ in.a.kind = "Point")
          => (out.panic = FALSE /\ out.val.typ = "Geometry" /\ out.err = NilErr)
    /\ (op = "SQL" /\ in.a = Nil)
          => (out.panic = FALSE /\ out.val = WireNull /\ out.err = NilErr)

\* C5: for all Points p and q Compare(p, q) returns no error and the sign of
\* the lexicographic comparison of (X, Y): 0 iff p = q, Compare(p, p) = 0,
\* Compare(p, q) = -Compare(q, p), and Compare is transitive.
C5_CompareLexicographic ==
    (op = "Compare" /\ in.a.kind = "Point" /\ in.b.kind = "Point")
        => /\ out.err = NilErr
           /\ out.res = Lexicographic(in.a, in.b)
           /\ (out.res = 0) <=> (in.a = in.b)
           /\ Compare(in.a, in.a).res = 0
           /\ Compare(in.b, in.a).res = -out.res
           /\ \A r \in PointValues :
                 (out.res <= 0 /\ Compare(in.b, r).res <= 0) => Compare(in.a, r).res <= 0

\* Compare decided an order of two Points with equal X by their Y values
C5_Witness ==
    /\ op = "Compare"
    /\ in.a.kind = "Point"
    /\ in.b.kind = "Point"
    /\ in.a.X = in.b.X
    /\ in.a.Y < in.b.Y
    /\ out = [res |-> -1, err |-> NilErr]

\* C7: Convert(v) returns v and no error when v is a Point, and an error with
\* a nil value for every other v, nil included.
C7_ConvertIdentityOrError ==
    op = "Convert"
        => IF in.a.kind = "Point"
           THEN out.val = in.a /\ out.err = NilErr
           ELSE out.val = Nil /\ out.err # NilErr

\* Convert refused a non-nil value that is not a Point
C7_Witness ==
    /\ op = "Convert"
    /\ in.a.kind \notin {"Point", "nil"}
    /\ out.val = Nil
    /\ out.err = "can't convert to Point"

(***************************************************************************)
(* Properties of Polygon.Eval (SpecEval)                                   *)
(***************************************************************************)
\* the ring invariant of the data model: 0 points, or 4 or more and closed
RingByContract(ps) == Len(ps) = 0 \/ (Len(ps) >= 4 /\ ps[1] = ps[Len(ps)])

\* the child makes the constructor fail
ChildFails(arg) ==
    \/ arg.err # NilErr
    \/ arg.val.kind # "Linestring"
    \/ ~RingByContract(arg.val.Points)

\* the error the constructor reports for a failing child
ErrorOf(arg) ==
    IF arg.err # NilErr THEN arg.err
    ELSE IF arg.val.kind # "Linestring"
    THEN "polygon constructor encountered a non-linestring"
    ELSE "polygon constructor encountered a non-linearring"

FirstUpTo(n) == [i \in 1..n |-> i]

LeastOf(S) == CHOOSE i \in S : \A j \in S : i <= j

\* C2: for every list of children, a Linestring of 0 points included, Eval
\* completes and returns a Polygon or an error; it never crashes.
C2_EvalNeverCrashes ==
    op = "Eval"
        => /\ out.panic = FALSE
           /\ \/ out.val.kind = "Polygon" /\ out.err = NilErr
              \/ out.val = Nil /\ out.err # NilErr

\* C3: Eval evaluates its children in argument order and stops at the first
\* failing child: it returns the error of that child and a nil value, and
\* evaluates no child after it.
C3_FirstFailingChildDecides ==
    op = "Eval"
        => LET args == exprs[in.recv].args
               failing == {i \in DOMAIN args : ChildFails(args[i])}
           IN  IF failing = {}
               THEN out.evaluated = FirstUpTo(Len(args))
               ELSE /\ out.panic = FALSE
                    /\ out.val = Nil
                    /\ out.err = ErrorOf(args[LeastOf(failing)])
                    /\ out.evaluated = FirstUpTo(LeastOf(failing))

\* every child evaluates without error to a closed Linestring of 4 or more points
AllClosedRings(args) ==
    \A i \in DOMAIN args :
        /\ args[i].err = NilErr
        /\ args[i].val.kind = "Linestring"
        /\ Len(args[i].val.Points) >= 4
        /\ args[i].val.Points[1] = args[i].val.Points[Len(args[i].val.Points)]

\* C4: when every child evaluates without error to a Linestring of 4 or more
\* points whose first and last points are equal, Eval returns no error and a
\* Polygon whose i-th ring is the value of the i-th child.
C4_RingsInArgumentOrder ==
    (op = "Eval" /\ AllClosedRings(exprs[in.recv].args))
        => /\ out.panic = FALSE
           /\ out.err = NilErr
           /\ out.val = Polygon([i \in DOMAIN exprs[in.recv].args |->
                                     exprs[in.recv].args[i].val])

\* Eval built a Polygon of two different rings
C4_Witness ==
    /\ op = "Eval"
    /\ AllClosedRings(exprs[in.recv].args)
    /\ Len(exprs[in.recv].args) >= 2
    /\ exprs[in.recv].args[1] # exprs[in.recv].args[2]
    /\ out.val.kind = "Polygon"
    /\ out.val.Lines[1] = exprs[in.recv].args[1].val
    /\ out.val.Lines[2] = exprs[in.recv].args[2].val

(***************************************************************************)
(* Properties of NewPolygon and WithChildren (Spec)                        *)
(***************************************************************************)
\* C6: NewPolygon and WithChildren fail with the invalid-argument-count error
\* exactly when given zero children; given one or more, WithChildren returns a
\* new constructor holding the new children, and the constructors that
\* existed keep their child lists.
C6_ArityAndRebuild ==
    /\ [](op \in {"NewPolygon", "WithChildren"}
            => /\ (out.err = "ErrInvalidArgumentNumber") <=> (Len(in.args) = 0)
               /\ (out.err = NilErr) <=> (Len(in.args) >= 1)
               /\ (out.ref = NilRef) <=> (out.err # NilErr)
               /\ Len(in.args) >= 1
                     => /\ out.ref \in DOMAIN exprs
                        /\ out.ref # in.recv
                        /\ exprs[out.ref].args = in.args)
    /\ [][op' \in {"NewPolygon", "WithChildren"}
            => \A i \in DOMAIN exprs : i \in DOMAIN exprs' /\ exprs'[i] = exprs[i]]_vars

\* WithChildren rebuilt a constructor with children other than its own
C6_Witness ==
    /\ op = "WithChildren"
    /\ Len(in.args) >= 1
    /\ out.ref # NilRef
    /\ exprs[out.ref].args = in.args
    /\ exprs[in.recv].args # in.args

=============================================================================
